---------------------------- MODULE Spec2Model ----------------------------
(***************************************************************************)
(* State-machine model of live_shock_arb_sim.py: the ShockFeed publisher,  *)
(* the ShockArbBot quote table, detector and trade coordinator, the        *)
(* MockBook execution venues and the asyncio tasks main() starts; and of   *)
(* odds_feed_service.py: producer_loop and the /v1/stream handler.         *)
(*                                                                         *)
(* Specifications.                                                         *)
(*  - Spec      the simulator as main() runs it.                           *)
(*  - SpecLive  Spec's steps under the fairness of the event loop.         *)
(*  - SpecDet   find_opportunity on its own, over a family of tables.      *)
(*  - SpecSolve solve_equalized_stakes on its own, over a family of inputs.*)
(*  - SpecSvc   the odds feed service.                                     *)
(*                                                                         *)
(* Conventions.                                                            *)
(*  - Decimal odds, stakes and edges are exact rationals <<n, d>> in       *)
(*    lowest terms (d > 0).  The arithmetic operators of the source are    *)
(*    translated one for one; IEEE rounding is not represented.            *)
(*  - One action is one run of a task between two awaits: asyncio runs     *)
(*    every task of the program on a single event loop.                    *)
(*  - A sleeping task carries the milliseconds left of its sleep; Advance  *)
(*    lets time pass up to the next wake-up.                               *)
(*  - time.time() < end_t is the flag ~expired, raised by Expire.          *)
(*  - now_ms() is a logical stamp <<shock number, phase>>.                 *)
(***************************************************************************)
EXTENDS Integers, Naturals, Sequences, FiniteSets, TLC

VARIABLES
    quotes,          \* ShockArbBot.quotes: (book, side) -> Quote or None
    open_trades,     \* ShockArbBot.open_trades
    trades,          \* ShockArbBot.trades, the ledger
    max_concurrent,  \* the MAX_CONCURRENT knob of this run
    opp,             \* try_trade: opp, the detector's last answer
    read,            \* the quote table as the last find_opportunity call read it
                     \* (None before the first call)
    stakes,          \* try_trade: SA, SB, locked, roi of the current attempt
    t1,              \* try_trade: t1, the side-A ticket (None while pending)
    t2,              \* try_trade: t2, the side-B ticket (None while pending)
    inflight,        \* the legs whose MockBook.place call is outstanding
    engine_pc,       \* where main.engine stands: "loop", "leg1", "leg2", "done"
    engine_timer,    \* ms left of the sleep the engine task is in
    fair,            \* ShockFeed.fair_dec_A, ShockFeed.fair_dec_B
    feed_pc,         \* where ShockFeed.run stands: "poll", "lag", "done"
    feed_timer,      \* ms left of the sleep the feed task is in
    shocks,          \* number of shocks emitted so far
    delivered,       \* the batches the subscriber received, in order
    since_shock,     \* ms elapsed since the last shock (capped at the lag)
    expired,         \* the wall clock has passed end_t
    min_edge,        \* the MIN_ARBITRAGE_EDGE knob of this run
    report,          \* what bot.summary() reported (None before it ran)
    latest,          \* odds feed service: latest, key -> record
    subscribers,     \* odds feed service: subscribers, the list of sockets
    handlers,        \* each socket's /v1/stream handler: "new", "open", "closed"
    svc_pc,          \* where producer_loop stands: "fetch", "send", "nap", "pause", "dead"
    sport,           \* producer_loop: index of the sport being fetched
    fetches,         \* number of fetch_once calls so far, the service's clock
    updates,         \* producer_loop: updates, the batch being broadcast
    sending,         \* producer_loop: ws, the socket whose send_json is awaited
    send_i,          \* producer_loop: position of ws in the iteration over subscribers
    dead,            \* producer_loop: dead
    svc_log          \* what each fetch came to and each send_json that went out

SvcVars == <<latest, subscribers, handlers, svc_pc, sport, fetches, updates, sending, send_i,
            dead, svc_log>>

vars == <<quotes, open_trades, trades, max_concurrent, opp, read, stakes, t1, t2,
          inflight, engine_pc, engine_timer, fair, feed_pc, feed_timer, shocks,
          delivered, since_shock, expired, min_edge, report, SvcVars>>

----------------------------------------------------------------------------
(* Bounds of the model *)

MaxShocks == 2   \* shocks emitted in a run
MaxTrades == 2   \* trades the ledger holds before the model stops trading

----------------------------------------------------------------------------
(* Exact rational arithmetic *)

Abs(x) == IF x < 0 THEN -x ELSE x

\* the remainder is bound as a value, so each level is evaluated once
RECURSIVE Gcd(_, _)
Gcd(a, b) == IF b = 0 THEN a ELSE CHOOSE g \in { Gcd(b, r) : r \in {a % b} } : TRUE

\* n/d in lowest terms with a positive denominator
Lowest(n, d) ==
    LET s == IF d < 0 THEN -1 ELSE 1
        g == Gcd(Abs(n), Abs(d))
    IN  <<(s * n) \div g, (s * d) \div g>>

\* numerator and denominator are bound as values before they are reduced
Rat(n, d) == CHOOSE q \in { Lowest(nn, dd) : nn \in {n}, dd \in {d} } : TRUE

RAdd(a, b) == Rat(a[1] * b[2] + b[1] * a[2], a[2] * b[2])
RSub(a, b) == Rat(a[1] * b[2] - b[1] * a[2], a[2] * b[2])
RMul(a, b) == Rat(a[1] * b[1], a[2] * b[2])
RDiv(a, b) == Rat(a[1] * b[2], a[2] * b[1])
RLt(a, b)  == a[1] * b[2] < b[1] * a[2]
RLe(a, b)  == a[1] * b[2] <= b[1] * a[2]
RMax(a, b) == IF RLt(a, b) THEN b ELSE a

One  == <<1, 1>>
Zero == <<0, 1>>

----------------------------------------------------------------------------
(* CONFIG *)

MAX_CONCURRENT == 2
BOOK_UPDATE_LAG_MS == 450
TICK_MS == 10
POLL_MS == 20
TOTAL_OUTLAY == <<200, 1>>
MIN_ARBITRAGE_EDGE == <<1, 200>>
FLOOR_DEC == <<21, 20>>

\* random.randint(*BOOK_LATENCY_MS[name]): the two ends of each range
BOOK_LATENCY_MS(name) == IF name = "BookA" THEN {80, 180} ELSE {90, 220}

\* the values MAX_CONCURRENT is run with
ConcurrencyKnob == 0 .. MAX_CONCURRENT

\* a threshold above every edge the shock parameters can produce:
\* odds stay below 1.03 / (1 - 1/1.30) < 4.47, so edges stay below 0.56
EDGE_ABOVE_ALL == <<3, 5>>

\* the values MIN_ARBITRAGE_EDGE is run with
EdgeKnob == {MIN_ARBITRAGE_EDGE, EDGE_ABOVE_ALL}

----------------------------------------------------------------------------
(* MODELS *)

None == [kind |-> "None"]

Books == {"BookA", "BookB"}
Sides == {"A", "B"}
Keys  == Books \X Sides

Quote(book, side, decimal, ts) ==
    [kind |-> "Quote", book |-> book, event_id |-> "EVT1", side |-> side,
     decimal |-> decimal, ts_ms |-> ts]

Ticket(book, side, stake, decimal_odds, accepted) ==
    [kind |-> "Ticket", book |-> book, event_id |-> "EVT1", side |-> side,
     stake |-> stake, decimal_odds |-> decimal_odds, accepted |-> accepted,
     note |-> IF accepted THEN "" ELSE "rejected"]

Trade_OddsCrossed(bA, bB, SA, SB, oA, oB, locked, roi) ==
    [kind |-> "Trade", event_id |-> "EVT1", A_book |-> bA, B_book |-> bB,
     stake_A |-> SA, stake_B |-> SB, oA |-> oB, oB |-> oA,
     profit_locked |-> locked, roi |-> roi]

Trade(bA, bB, SA, SB, oA, oB, locked, roi) ==
    [kind |-> "Trade", event_id |-> "EVT1", A_book |-> bA, B_book |-> bB,
     stake_A |-> SA, stake_B |-> SB, oA |-> oA, oB |-> oB,
     profit_locked |-> locked, roi |-> roi]

----------------------------------------------------------------------------
(* UTILS *)

imp_prob_from_dec(o) == RDiv(One, o)

solve_equalized_stakes_OwnOdds(oA, oB, total) ==
    LET SA == RDiv(RMul(total, oA), RAdd(oA, oB))
        SB == RSub(total, SA)
        locked == RSub(RMul(SA, RSub(oA, One)), SB)
    IN  [SA |-> SA, SB |-> SB, locked |-> locked]

solve_equalized_stakes_NoResidual(oA, oB, total) ==
    LET SA == RDiv(RMul(total, oB), RAdd(oA, oB))
        SB == total
        locked == RSub(RMul(SA, RSub(oA, One)), SB)
    IN  [SA |-> SA, SB |-> SB, locked |-> locked]

solve_equalized_stakes_LessTotal(oA, oB, total) ==
    LET SA == RDiv(RMul(total, oB), RAdd(oA, oB))
        SB == RSub(total, SA)
        locked == RSub(RMul(SA, RSub(oA, One)), total)
    IN  [SA |-> SA, SB |-> SB, locked |-> locked]

\* SA = total * oB / (oA + oB); SB = total - SA; locked = SA * (oA - 1) - SB
solve_equalized_stakes(oA, oB, total) ==
    LET SA == RDiv(RMul(total, oB), RAdd(oA, oB))
        SB == RSub(total, SA)
        locked == RSub(RMul(SA, RSub(oA, One)), SB)
    IN  [SA |-> SA, SB |-> SB, locked |-> locked]

----------------------------------------------------------------------------
(* ShockArbBot: quote table and detector *)

EmptyQuotes == [k \in Keys |-> None]

\* find_opportunity has not been called yet
Unread == [k \in Keys |-> [kind |-> "Unread"]]

on_quotes_FirstOnly(table, batch) ==
    IF batch = << >> THEN table
    ELSE [table EXCEPT ![<<batch[1].book, batch[1].side>>] = batch[1]]

RECURSIVE on_quotes_IfAbsent(_, _)
on_quotes_IfAbsent(table, batch) ==
    IF batch = << >> THEN table
    ELSE LET q == Head(batch)
             k == <<q.book, q.side>>
         IN  on_quotes_IfAbsent(IF table[k] = None THEN [table EXCEPT ![k] = q] ELSE table,
                                Tail(batch))

\* for q in quotes: self.quotes[(q.book, q.side)] = q
RECURSIVE on_quotes(_, _)
on_quotes(table, batch) ==
    IF batch = << >> THEN table
    ELSE LET q == Head(batch)
         IN  on_quotes([table EXCEPT ![<<q.book, q.side>>] = q], Tail(batch))

combos_OneVenue == << << <<"BookA", "A">>, <<"BookA", "B">> >>,
                      << <<"BookB", "A">>, <<"BookB", "B">> >> >>

\* combos = [("BookA","A","BookB","B"), ("BookB","A","BookA","B")]
combos == << << <<"BookA", "A">>, <<"BookB", "B">> >>,
             << <<"BookB", "A">>, <<"BookA", "B">> >> >>

Edge_SignSlip(o1, o2) == RSub(RAdd(imp_prob_from_dec(o1), imp_prob_from_dec(o2)), One)

\* edge = 1.0 - p_sum
Edge(o1, o2) == RSub(One, RAdd(imp_prob_from_dec(o1), imp_prob_from_dec(o2)))

Better_TieToLast(edge, best_edge) == RLe(best_edge, edge)

\* if edge > best_edge
Better(edge, best_edge) == RLt(best_edge, edge)

\* one pass of the for loop over combos
Examine(table, acc, combo) ==
    LET q1 == table[combo[1]]
        q2 == table[combo[2]]
    IN  IF q1 = None \/ q2 = None THEN acc
        ELSE LET edge == Edge(q1.decimal, q2.decimal)
             IN  IF Better(edge, acc.best_edge)
                 THEN [best |-> [kind |-> "Opp", b1 |-> combo[1][1], b2 |-> combo[2][1],
                                 o1 |-> q1.decimal, o2 |-> q2.decimal],
                       best_edge |-> edge]
                 ELSE acc

RECURSIVE Scan(_, _, _)
Scan(table, acc, i) ==
    IF i > Len(combos) THEN acc
    ELSE Scan(table, Examine(table, acc, combos[i]), i + 1)

ClearsThreshold_Exclusive(best_edge) == RLt(min_edge, best_edge)

\* if best and best_edge >= MIN_ARBITRAGE_EDGE
ClearsThreshold(best_edge) == RLe(min_edge, best_edge)

find_opportunity(table) ==
    LET r == Scan(table, [best |-> None, best_edge |-> Zero], 1)
    IN  IF r.best # None /\ ClearsThreshold(r.best_edge) THEN r.best ELSE None

----------------------------------------------------------------------------
(* ShockArbBot.summary *)

RECURSIVE SumOf(_, _)
SumOf(ledger, field) ==
    IF ledger = << >> THEN Zero
    ELSE RAdd(Head(ledger)[field], SumOf(Tail(ledger), field))

summary_NoGuard(ledger) ==
    [kind |-> "Summary", trades |-> Len(ledger),
     avg_roi |-> IF Len(ledger) = 0 THEN [kind |-> "ZeroDivisionError"]
                 ELSE RDiv(SumOf(ledger, "roi"), <<Len(ledger), 1>>),
     total_locked |-> SumOf(ledger, "profit_locked")]

\* if not self.trades: "No completed arbitrages."; else n, avg_roi, total_locked
summary(ledger) ==
    IF ledger = << >> THEN [kind |-> "NoTrades"]
    ELSE [kind |-> "Summary", trades |-> Len(ledger),
          avg_roi |-> RDiv(SumOf(ledger, "roi"), <<Len(ledger), 1>>),
          total_locked |-> SumOf(ledger, "profit_locked")]

----------------------------------------------------------------------------
(* Odds feed service: the latest table *)

SPORTS == << "basketball_nba", "americanfootball_nfl" >>
Outcomes == {"Team A", "Team B"}
Sockets == {"ws1", "ws2"}

\* key: one event, one book and one market per sport, so sport and side
LatestKeys == { <<SPORTS[i], o>> : i \in 1 .. Len(SPORTS), o \in Outcomes }
EmptyLatest == [k \in LatestKeys |-> None]

\* module level, and the producer task as created by _start
ServiceStarted ==
    /\ latest = EmptyLatest
    /\ subscribers = << >>
    /\ handlers = [w \in Sockets |-> "new"]
    /\ svc_pc = "fetch"
    /\ sport = 1
    /\ fetches = 0
    /\ updates = << >>
    /\ sending = None
    /\ send_i = 0
    /\ dead = << >>
    /\ svc_log = << >>

----------------------------------------------------------------------------
(* The state after main() has built the feed and the bot *)

Init ==
    /\ quotes = EmptyQuotes
    /\ open_trades = 0
    /\ trades = << >>
    /\ max_concurrent \in ConcurrencyKnob
    /\ opp = None
    /\ read = Unread
    /\ stakes = None
    /\ t1 = None
    /\ t2 = None
    /\ inflight = {}
    /\ engine_pc = "loop"
    /\ engine_timer = 0
    /\ fair = << <<2, 1>>, <<2, 1>> >>
    /\ feed_pc = "poll"
    /\ feed_timer = 0
    /\ shocks = 0
    /\ delivered = << >>
    /\ since_shock = 0
    /\ expired = FALSE
    /\ min_edge \in EdgeKnob
    /\ report = None
    /\ ServiceStarted

----------------------------------------------------------------------------
(* ShockFeed *)

\* random.uniform(1.30, 1.70)
FavDecs == { <<3, 2>> }
\* random.uniform(0.98, 1.02) and random.uniform(0.98, 1.03)
Noise   == { <<1, 1>> }
NoiseB  == { <<1, 1>>, <<200, 199>> }
\* random.uniform(0.98, 1.02) of stale_A: the upper end, so that the two legs
\* of an opportunity can carry different odds
NoiseStale == { <<51, 50>> }

\* max(1.05, 1.0 / (1.0 - 1.0/fav_dec))
DogDec(fav_dec) == RMax(FLOOR_DEC, RDiv(One, RSub(One, RDiv(One, fav_dec))))

\* max(1.05, fair * random.uniform(...))
Juiced(fair_dec, u) == RMax(FLOOR_DEC, RMul(fair_dec, u))

\* the fair odds a shock sets: (fair_dec_A, fair_dec_B)
Shocked(fav, fav_dec) ==
    IF fav = "A" THEN <<fav_dec, DogDec(fav_dec)>> ELSE <<DogDec(fav_dec), fav_dec>>

\* [qA_A, qA_B]: BookA near the new fair odds
BookABatch(f, u, ts) ==
    << Quote("BookA", "A", Juiced(f[1], u[1]), ts),
       Quote("BookA", "B", Juiced(f[2], u[2]), ts) >>

\* [qB_A_stale, qB_B_stale]: BookB with the sides of self.fair_dec swapped
StaleBatch(f, u, ts) ==
    << Quote("BookB", "A", Juiced(f[2], u[1]), ts),
       Quote("BookB", "B", Juiced(f[1], u[2]), ts) >>

\* [qB_A, qB_B]: BookB caught up
CaughtUpBatch(f, u, ts) ==
    << Quote("BookB", "A", Juiced(f[1], u[1]), ts),
       Quote("BookB", "B", Juiced(f[2], u[2]), ts) >>

\* for cb in self.subscribers: cb(quotes), the bot's on_quotes being the only one
emit(table, batch) == on_quotes(table, batch)

\* what the subscriber saw of one call: the shock, the step, the venue, the
\* time since the shock
Seen(n, step, batch, dt) ==
    [shock |-> n, step |-> step, book |-> batch[1].book, sides |-> Len(batch), dt |-> dt]

LagSleepMs_Poll == POLL_MS

\* await asyncio.sleep(BOOK_UPDATE_LAG_MS / 1000.0)
LagSleepMs == BOOK_UPDATE_LAG_MS

EngineVars == <<open_trades, trades, max_concurrent, min_edge, report, SvcVars, opp, read, stakes, t1, t2,
                inflight, engine_pc, engine_timer>>
FeedVars   == <<quotes, fair, feed_pc, feed_timer, shocks, delivered, since_shock>>

BeforeEnd_Always == TRUE

\* while time.time() < end_t
BeforeEnd == ~expired

\* run: the while condition fails
FeedExit ==
    /\ feed_pc = "poll" /\ feed_timer = 0
    /\ ~BeforeEnd
    /\ feed_pc' = "done"
    /\ UNCHANGED <<quotes, fair, feed_timer, shocks, delivered, since_shock>>
    /\ UNCHANGED EngineVars
    /\ UNCHANGED expired

\* run: t < next_shock, sleep 20 ms
FeedIdle ==
    /\ feed_pc = "poll" /\ feed_timer = 0
    /\ BeforeEnd
    /\ feed_timer' = POLL_MS
    /\ UNCHANGED <<quotes, fair, feed_pc, shocks, delivered, since_shock>>
    /\ UNCHANGED EngineVars
    /\ UNCHANGED expired

\* run: t >= next_shock; _emit_shock up to its await
FeedShock ==
    /\ feed_pc = "poll" /\ feed_timer = 0
    /\ BeforeEnd
    /\ shocks < MaxShocks
    /\ \E fav \in Sides, fav_dec \in FavDecs, uA \in Noise \X Noise, uS \in NoiseStale \X Noise :
          LET f  == Shocked(fav, fav_dec)
              n  == shocks + 1
              ts == <<n, 0>>
              b1 == BookABatch(f, uA, ts)
              b2 == StaleBatch(f, uS, ts)
          IN  /\ fair' = f
              /\ quotes' = emit(emit(quotes, b1), b2)
              /\ delivered' = delivered \o << Seen(n, 1, b1, 0), Seen(n, 2, b2, 0) >>
              /\ shocks' = n
    /\ since_shock' = 0
    /\ feed_pc' = "lag"
    /\ feed_timer' = LagSleepMs
    /\ UNCHANGED EngineVars
    /\ UNCHANGED expired

\* _emit_shock after its await, then run: sleep 20 ms
FeedCatchUp ==
    /\ feed_pc = "lag" /\ feed_timer = 0
    /\ \E uB \in NoiseB \X NoiseB :
          LET b3 == CaughtUpBatch(fair, uB, <<shocks, 1>>)
          IN  /\ quotes' = emit(quotes, b3)
              /\ delivered' = Append(delivered, Seen(shocks, 3, b3, since_shock))
    /\ feed_pc' = "poll"
    /\ feed_timer' = POLL_MS
    /\ UNCHANGED <<fair, shocks, since_shock>>
    /\ UNCHANGED EngineVars
    /\ UNCHANGED expired

----------------------------------------------------------------------------
(* MockBook and ShockArbBot.try_trade, run by main.engine *)

AtCap_OffByOne(n, cap) == n > cap

\* if self.open_trades >= MAX_CONCURRENT: return
AtCap(n, cap) == n >= cap

\* self.open_trades += 1
Opened(n) == n + 1

Released_OnlyOnFill(n, a, b) == IF a.accepted /\ b.accepted THEN n - 1 ELSE n

\* self.open_trades -= 1
Released(n, a, b) == n - 1

BothAccepted_Either(a, b) == a.accepted \/ b.accepted

\* t1.accepted and t2.accepted
BothAccepted(a, b) == a.accepted /\ b.accepted

\* SA, SB, locked = solve_equalized_stakes(oA, oB, TOTAL_OUTLAY); roi = locked / TOTAL_OUTLAY
Staked(o) ==
    LET r == solve_equalized_stakes(o.o1, o.o2, TOTAL_OUTLAY)
    IN  [kind |-> "Stakes", SA |-> r.SA, SB |-> r.SB, locked |-> r.locked,
         roi |-> RDiv(r.locked, TOTAL_OUTLAY)]

\* engine: the while condition fails; bot.summary()
EngineExit ==
    /\ engine_pc = "loop" /\ engine_timer = 0
    /\ ~BeforeEnd
    /\ engine_pc' = "done"
    /\ report' = summary(trades)
    /\ UNCHANGED <<open_trades, trades, max_concurrent, min_edge, SvcVars, opp, read, stakes,
                   t1, t2, inflight, engine_timer>>
    /\ UNCHANGED FeedVars
    /\ UNCHANGED expired

\* try_trade returns at the cap check; engine sleeps 10 ms
EngineCapped ==
    /\ engine_pc = "loop" /\ engine_timer = 0
    /\ BeforeEnd
    /\ AtCap(open_trades, max_concurrent)
    /\ engine_timer' = TICK_MS
    /\ UNCHANGED <<open_trades, trades, max_concurrent, min_edge, report, SvcVars, opp, read, stakes, t1, t2,
                   inflight, engine_pc>>
    /\ UNCHANGED FeedVars
    /\ UNCHANGED expired

\* try_trade returns for want of an opportunity; engine sleeps 10 ms
EngineNoOpp ==
    /\ engine_pc = "loop" /\ engine_timer = 0
    /\ BeforeEnd
    /\ ~AtCap(open_trades, max_concurrent)
    /\ find_opportunity(quotes) = None
    /\ opp' = None
    /\ read' = quotes
    /\ engine_timer' = TICK_MS
    /\ UNCHANGED <<open_trades, trades, max_concurrent, min_edge, report, SvcVars, stakes, t1, t2, inflight,
                   engine_pc>>
    /\ UNCHANGED FeedVars
    /\ UNCHANGED expired

\* try_trade up to its first await: the slot is opened and the side-A leg placed
EngineStart ==
    /\ engine_pc = "loop" /\ engine_timer = 0
    /\ BeforeEnd
    /\ ~AtCap(open_trades, max_concurrent)
    /\ find_opportunity(quotes) # None
    /\ Len(trades) < MaxTrades
    /\ opp' = find_opportunity(quotes)
    /\ read' = quotes
    /\ stakes' = Staked(opp')
    /\ open_trades' = Opened(open_trades)
    /\ t1' = None
    /\ t2' = None
    /\ inflight' = {"A"}
    /\ engine_pc' = "leg1"
    /\ engine_timer' \in BOOK_LATENCY_MS(opp'.b1)
    /\ UNCHANGED <<trades, max_concurrent, min_edge, report, SvcVars>>
    /\ UNCHANGED FeedVars
    /\ UNCHANGED expired

\* the side-A place call returns its ticket; the side-B leg is placed
Leg1Return ==
    /\ engine_pc = "leg1" /\ engine_timer = 0
    /\ \E accepted \in BOOLEAN :
          t1' = Ticket(opp.b1, "A", stakes.SA, opp.o1, accepted)
    /\ inflight' = {"B"}
    /\ engine_pc' = "leg2"
    /\ engine_timer' \in BOOK_LATENCY_MS(opp.b2)
    /\ UNCHANGED <<open_trades, trades, max_concurrent, min_edge, report, SvcVars, opp, read, stakes, t2>>
    /\ UNCHANGED FeedVars
    /\ UNCHANGED expired

\* the side-B place call returns its ticket; the slot is released, the trade
\* recorded or dropped; engine sleeps 10 ms
Leg2Return ==
    /\ engine_pc = "leg2" /\ engine_timer = 0
    /\ \E accepted \in BOOLEAN :
          t2' = Ticket(opp.b2, "B", stakes.SB, opp.o2, accepted)
    /\ inflight' = {}
    /\ open_trades' = Released(open_trades, t1, t2')
    /\ trades' = IF BothAccepted(t1, t2')
                 THEN Append(trades, Trade(opp.b1, opp.b2, stakes.SA, stakes.SB,
                                           opp.o1, opp.o2, stakes.locked, stakes.roi))
                 ELSE trades
    /\ engine_pc' = "loop"
    /\ engine_timer' = TICK_MS
    /\ UNCHANGED <<max_concurrent, min_edge, report, SvcVars, opp, read, stakes, t1>>
    /\ UNCHANGED FeedVars
    /\ UNCHANGED expired

----------------------------------------------------------------------------
(* The event loop's clock *)

Sleepers ==
    (IF engine_pc # "done" THEN {engine_timer} ELSE {})
    \cup (IF feed_pc # "done" THEN {feed_timer} ELSE {})

Min(S) == CHOOSE x \in S : \A y \in S : x <= y

\* no task is ready: time passes until the first sleeper is due
Advance ==
    /\ Sleepers # {}
    /\ \A x \in Sleepers : x > 0
    /\ LET d == Min(Sleepers)
       IN  /\ engine_timer' = IF engine_pc # "done" THEN engine_timer - d ELSE engine_timer
           /\ feed_timer' = IF feed_pc # "done" THEN feed_timer - d ELSE feed_timer
           /\ since_shock' = IF since_shock + d > BOOK_UPDATE_LAG_MS
                             THEN BOOK_UPDATE_LAG_MS ELSE since_shock + d
    /\ UNCHANGED <<quotes, fair, feed_pc, shocks, delivered>>
    /\ UNCHANGED <<open_trades, trades, max_concurrent, min_edge, report, SvcVars, opp, read, stakes, t1, t2,
                   inflight, engine_pc>>
    /\ UNCHANGED expired

\* RUNTIME_SECONDS have passed
Expire ==
    /\ ~expired
    /\ expired' = TRUE
    /\ UNCHANGED FeedVars
    /\ UNCHANGED EngineVars

Next ==
    \/ FeedExit \/ FeedIdle \/ FeedShock \/ FeedCatchUp
    \/ EngineExit \/ EngineCapped \/ EngineNoOpp \/ EngineStart
    \/ Leg1Return \/ Leg2Return
    \/ Advance \/ Expire

Spec == Init /\ [][Next]_vars

\* the event loop resumes a task whose sleep or whose place call is over and
\* lets time pass when no task is ready; the wall clock reaches end_t
\* MAX_CONCURRENT as configured, and 0 for the capped branch of try_trade
InitLive == Init /\ max_concurrent \in {0, MAX_CONCURRENT}

SpecLive ==
    /\ InitLive /\ [][Next]_vars
    /\ WF_vars(Expire) /\ WF_vars(Advance)
    /\ WF_vars(FeedCatchUp) /\ WF_vars(FeedExit)
    /\ WF_vars(Leg1Return) /\ WF_vars(Leg2Return) /\ WF_vars(EngineExit)

----------------------------------------------------------------------------
(* Properties of the run *)

\* the attempts in LEGS_IN_FLIGHT: try_trade is called by the engine task alone
InFlightAttempts == IF engine_pc \in {"leg1", "leg2"} THEN 1 ELSE 0

AttemptStarts == inflight = {} /\ inflight' # {}

\* C1: with MAX_CONCURRENT = N, neither the open-trade counter nor the number
\* of attempts whose legs are in flight ever exceeds N, and a tick that finds
\* the counter at or above N starts no attempt.
C1_ConcurrencyCap ==
    /\ [](open_trades <= max_concurrent /\ InFlightAttempts <= max_concurrent)
    /\ [][open_trades >= max_concurrent => ~AttemptStarts]_vars

C1_Witness ==
    /\ max_concurrent = 1
    /\ open_trades = 1
    /\ InFlightAttempts = 1

\* C2: in every attempt the side-B place call is started before the side-A
\* place call has returned: while the side-A ticket is pending, the side-B
\* leg is in flight too.
C2_LegsInFlightTogether ==
    (open_trades > 0 /\ t1 = None) => "B" \in inflight

IsTicket(t) == t.kind = "Ticket"

\* C3: the ledger changes only by one Trade being appended when the second
\* ticket of an attempt arrives and both tickets are accepted; an attempt that
\* resolves with both tickets accepted appends exactly one Trade, any other
\* outcome appends nothing.
C3_TradeIffBothAccepted ==
    [][ /\ trades' # trades =>
              /\ engine_pc = "leg2" /\ inflight' = {}
              /\ IsTicket(t1') /\ IsTicket(t2') /\ t1'.accepted /\ t2'.accepted
              /\ Len(trades') = Len(trades) + 1
              /\ SubSeq(trades', 1, Len(trades)) = trades
        /\ (engine_pc = "leg2" /\ engine_pc' # "leg2") =>
              Len(trades') = Len(trades) + (IF t1'.accepted /\ t2'.accepted THEN 1 ELSE 0)
      ]_vars

C3_Witness ==
    /\ Len(trades) = 1
    /\ engine_pc = "loop"
    /\ IsTicket(t1) /\ IsTicket(t2) /\ t1.accepted /\ ~t2.accepted

\* C4: the open-trade counter is never negative, is one above its idle value
\* while an attempt's legs are in flight, and is back at its pre-attempt value
\* (zero) once the attempt has resolved, whatever the two tickets say.
C4_SlotReleased ==
    /\ open_trades >= 0
    /\ engine_pc \in {"leg1", "leg2"} => open_trades = 1
    /\ engine_pc \in {"loop", "done"} => open_trades = 0

C4_Witness ==
    /\ engine_pc = "loop"
    /\ IsTicket(t1) /\ IsTicket(t2) /\ ~t1.accepted /\ t2.accepted
    /\ open_trades = 0

\* C5: the tick loop runs concurrently with the leg placements: while an
\* attempt's legs are in flight the engine task is in its tick loop, not
\* suspended inside the attempt.
C5_TicksWhileLegsInFlight ==
    inflight # {} => engine_pc = "loop"

BatchWhole(table) ==
    \A b \in Books :
        \/ table[<<b, "A">>] = None /\ table[<<b, "B">>] = None
        \/ /\ table[<<b, "A">>] # None /\ table[<<b, "B">>] # None
           /\ table[<<b, "A">>].ts_ms = table[<<b, "B">>].ts_ms

\* C6: in every state, and in every table the detector has read, each venue
\* has either no quote or both its side-A and side-B quotes, the two stamped
\* by the same publication.
C6_BatchAtomic ==
    /\ BatchWhole(quotes)
    /\ read # Unread => BatchWhole(read)

C6_Witness ==
    /\ read # Unread
    /\ read[<<"BookB", "A">>] # None
    /\ read[<<"BookB", "A">>].ts_ms = <<2, 1>>
    /\ read[<<"BookA", "A">>].ts_ms = <<2, 0>>

\* C7: the subscriber receives, shock after shock, venue A's post-shock batch,
\* then venue B's stale batch, then venue B's corrected batch, the corrected
\* batch no earlier than BOOK_UPDATE_LAG_MS after the shock, and never a step
\* of another shock in between.
C7_PublicationOrder ==
    \A i \in 1 .. Len(delivered) :
        LET e == delivered[i]
            k == ((i - 1) % 3) + 1
        IN  /\ e.shock = ((i - 1) \div 3) + 1
            /\ e.step = k
            /\ e.book = IF k = 1 THEN "BookA" ELSE "BookB"
            /\ e.sides = 2
            /\ k = 3 => e.dt >= BOOK_UPDATE_LAG_MS

C7_Witness ==
    /\ Len(delivered) >= 6
    /\ delivered[6].step = 3

----------------------------------------------------------------------------
(* The detector as a function of the quote table: every table over a small  *)
(* set of odds, entries missing or present, is handed to find_opportunity.  *)

DetOdds == { <<3, 2>>, <<2, 1>>, <<200, 99>>, <<201, 100>> }

DetTables ==
    { t \in [Keys -> {None} \cup { Quote(b, s, o, <<0, 0>>) :
                                      b \in Books, s \in Sides, o \in DetOdds }] :
        \A k \in Keys : t[k] # None => (t[k].book = k[1] /\ t[k].side = k[2]) }

DetOnly == <<open_trades, trades, max_concurrent, min_edge, report, SvcVars, stakes, t1, t2, inflight, engine_pc,
             engine_timer, fair, feed_pc, feed_timer, shocks, delivered, since_shock,
             expired>>

DetFind ==
    /\ opp' = find_opportunity(quotes)
    /\ read' = quotes
    /\ UNCHANGED quotes
    /\ UNCHANGED DetOnly

InitDet ==
    /\ quotes \in DetTables
    /\ open_trades = 0
    /\ trades = << >>
    /\ max_concurrent = MAX_CONCURRENT
    /\ opp = None
    /\ read = Unread
    /\ stakes = None
    /\ t1 = None
    /\ t2 = None
    /\ inflight = {}
    /\ engine_pc = "loop"
    /\ engine_timer = 0
    /\ fair = << <<2, 1>>, <<2, 1>> >>
    /\ feed_pc = "poll"
    /\ feed_timer = 0
    /\ shocks = 0
    /\ delivered = << >>
    /\ since_shock = 0
    /\ expired = FALSE
    /\ min_edge = MIN_ARBITRAGE_EDGE
    /\ report = None
    /\ ServiceStarted

NextDet == DetFind

SpecDet == InitDet /\ [][NextDet]_vars

----------------------------------------------------------------------------
(* Properties of the detector *)

\* 1 - (1/o1 + 1/o2), written out over numerators and denominators
Deficit(o1, o2) ==
    Rat(o1[1] * o2[1] - o1[2] * o2[1] - o2[2] * o1[1], o1[1] * o2[1])

PairA == << <<"BookA", "A">>, <<"BookB", "B">> >>
PairB == << <<"BookB", "A">>, <<"BookA", "B">> >>
Pairings == {PairA, PairB}

Present(table, p) == table[p[1]] # None /\ table[p[2]] # None
PairEdge(table, p) == Deficit(table[p[1]].decimal, table[p[2]].decimal)
PresentPairs(table) == { p \in Pairings : Present(table, p) }
TopPairs(table) ==
    { p \in PresentPairs(table) :
        \A q \in PresentPairs(table) : RLe(PairEdge(table, q), PairEdge(table, p)) }
OppOf(table, p) ==
    [kind |-> "Opp", b1 |-> p[1][1], b2 |-> p[2][1],
     o1 |-> table[p[1]].decimal, o2 |-> table[p[2]].decimal]

\* C8: the detector reports an opportunity only if the best pairing's edge is
\* at least MIN_ARBITRAGE_EDGE; a best edge exactly equal to the threshold is
\* reported, a best edge below it (or no pairing at all) yields no opportunity.
C8_ThresholdInclusive ==
    read # Unread =>
        /\ opp # None =>
              /\ TopPairs(read) # {}
              /\ \A p \in TopPairs(read) : RLe(MIN_ARBITRAGE_EDGE, PairEdge(read, p))
        /\ (\E p \in TopPairs(read) : PairEdge(read, p) = MIN_ARBITRAGE_EDGE)
              => opp # None
        /\ (\A p \in TopPairs(read) : RLt(PairEdge(read, p), MIN_ARBITRAGE_EDGE))
              => opp = None

C8_Witness ==
    /\ read # Unread
    /\ \E p \in TopPairs(read) : PairEdge(read, p) = MIN_ARBITRAGE_EDGE
    /\ opp # None

\* C9 as stated: whenever some present pairing has 1/o1 + 1/o2 < 1 the
\* detector reports an opportunity whose edge is 1 - (1/o1 + 1/o2) of the
\* best pairing; when every present pairing has 1/o1 + 1/o2 >= 1 it reports none.
C9_AnyPositiveEdgeReported ==
    read # Unread =>
        /\ (\E p \in PresentPairs(read) : RLt(Zero, PairEdge(read, p)))
              => /\ opp # None
                 /\ \A p \in TopPairs(read) : Deficit(opp.o1, opp.o2) = PairEdge(read, p)
        /\ (\A p \in PresentPairs(read) : RLe(PairEdge(read, p), Zero))
              => opp = None

\* C9 amended: whenever some present pairing has 1/o1 + 1/o2 <= 1 -
\* MIN_ARBITRAGE_EDGE the detector reports an opportunity whose odds give the
\* edge 1 - (1/o1 + 1/o2) of the best pairing; when every present pairing has
\* 1/o1 + 1/o2 >= 1 it reports none.
C9_EdgeAtLeastMinReported ==
    read # Unread =>
        /\ (\E p \in PresentPairs(read) : RLe(MIN_ARBITRAGE_EDGE, PairEdge(read, p)))
              => /\ opp # None
                 /\ \A p \in TopPairs(read) : Deficit(opp.o1, opp.o2) = PairEdge(read, p)
        /\ (\A p \in PresentPairs(read) : RLe(PairEdge(read, p), Zero))
              => opp = None

C9_Witness ==
    /\ read # Unread
    /\ opp # None
    /\ RLt(MIN_ARBITRAGE_EDGE, Deficit(opp.o1, opp.o2))
    /\ \E p \in PresentPairs(read) : RLt(PairEdge(read, p), Zero)

\* C10: the detector examines the pairings (BookA side A, BookB side B) and
\* (BookB side A, BookA side B) in that order, skips a pairing with a missing
\* quote, and selects the pairing of greatest edge, the first one on a tie;
\* the reported venues and odds are those of the selected pairing.
C10_BestPairingFirstOnTie ==
    read # Unread =>
        /\ opp # None =>
              /\ PairA \in TopPairs(read) => opp = OppOf(read, PairA)
              /\ PairA \notin TopPairs(read) =>
                    (PairB \in TopPairs(read) /\ opp = OppOf(read, PairB))
        /\ \A p \in Pairings :
              (PresentPairs(read) = {p} /\ RLe(MIN_ARBITRAGE_EDGE, PairEdge(read, p)))
                  => opp = OppOf(read, p)

C10_Witness ==
    /\ read # Unread
    /\ PresentPairs(read) = Pairings
    /\ PairEdge(read, PairA) = PairEdge(read, PairB)
    /\ OppOf(read, PairA) # OppOf(read, PairB)
    /\ opp = OppOf(read, PairA)

----------------------------------------------------------------------------
(* solve_equalized_stakes on its own: inputs drawn at the start, one call *)

SolveOdds   == { <<21, 20>>, <<3, 2>>, <<2, 1>>, <<201, 100>>, <<3, 1>>, <<13, 3>> }
SolveTotals == { <<200, 1>>, <<1, 1>>, <<50, 3>> }

SolveArgs(oA, oB, total) == [kind |-> "Args", oA |-> oA, oB |-> oB, total |-> total]

SolveOnly == <<quotes, open_trades, trades, max_concurrent, min_edge, report, SvcVars, opp,
               read, t1, t2, inflight, engine_pc, engine_timer, fair, feed_pc,
               feed_timer, shocks, delivered, since_shock, expired>>

\* SA, SB, locked = solve_equalized_stakes(oA, oB, total)
Solve ==
    /\ opp.kind = "Args"
    /\ stakes = None
    /\ stakes' = solve_equalized_stakes(opp.oA, opp.oB, opp.total)
    /\ UNCHANGED SolveOnly

InitSolve ==
    /\ quotes = EmptyQuotes
    /\ open_trades = 0
    /\ trades = << >>
    /\ max_concurrent = MAX_CONCURRENT
    /\ opp \in { SolveArgs(oA, oB, total) : oA \in SolveOdds, oB \in SolveOdds,
                                            total \in SolveTotals }
    /\ read = Unread
    /\ stakes = None
    /\ t1 = None
    /\ t2 = None
    /\ inflight = {}
    /\ engine_pc = "loop"
    /\ engine_timer = 0
    /\ fair = << <<2, 1>>, <<2, 1>> >>
    /\ feed_pc = "poll"
    /\ feed_timer = 0
    /\ shocks = 0
    /\ delivered = << >>
    /\ since_shock = 0
    /\ expired = FALSE
    /\ min_edge = MIN_ARBITRAGE_EDGE
    /\ report = None
    /\ ServiceStarted

NextSolve == Solve

SpecSolve == InitSolve /\ [][NextSolve]_vars

----------------------------------------------------------------------------
(* Properties of the stake solver *)

\* C11: for all odds o1, o2 > 1 and every total T > 0 the solver returns stakes
\* with s1 + s2 = T and s1 * o1 = s2 * o2 (either outcome pays the same), and
\* locked = s1 * (o1 - 1) - s2. Stated over exact rationals.
C11_EqualPayoutSplit ==
    (opp.kind = "Args" /\ stakes # None) =>
        /\ RAdd(stakes.SA, stakes.SB) = opp.total
        /\ RMul(stakes.SA, opp.oA) = RMul(stakes.SB, opp.oB)
        /\ stakes.locked = RSub(RMul(stakes.SA, RSub(opp.oA, One)), stakes.SB)
        /\ stakes.locked = RSub(RMul(stakes.SB, opp.oB), opp.total)

C11_Witness ==
    /\ opp.kind = "Args" /\ stakes # None
    /\ opp.oA = <<3, 2>> /\ opp.oB = <<13, 3>> /\ opp.total = <<50, 3>>
    /\ RLt(stakes.SB, stakes.SA)


----------------------------------------------------------------------------
(* Properties of the ledger *)

\* C12 as stated: every Trade in the ledger satisfies
\* stake_A + stake_B = total_outlay and stake_A * (odds_A - 1) = stake_B.
C12_StakeBEqualsNetWinOfA ==
    \A i \in 1 .. Len(trades) :
        /\ RAdd(trades[i].stake_A, trades[i].stake_B) = TOTAL_OUTLAY
        /\ RMul(trades[i].stake_A, RSub(trades[i].oA, One)) = trades[i].stake_B

\* C12: every Trade in the ledger satisfies stake_A + stake_B = total_outlay
\* and stake_A * odds_A = stake_B * odds_B (the same payout whichever side
\* wins); stake_A * (odds_A - 1) - stake_B is the Trade's profit_locked.
C12_LedgerEqualPayout ==
    \A i \in 1 .. Len(trades) :
        /\ RAdd(trades[i].stake_A, trades[i].stake_B) = TOTAL_OUTLAY
        /\ RMul(trades[i].stake_A, trades[i].oA) = RMul(trades[i].stake_B, trades[i].oB)
        /\ RSub(RMul(trades[i].stake_A, RSub(trades[i].oA, One)), trades[i].stake_B)
              = trades[i].profit_locked

C12_Witness ==
    \E i \in 1 .. Len(trades) :
        /\ trades[i].oA # trades[i].oB
        /\ RLt(Zero, trades[i].profit_locked)

----------------------------------------------------------------------------
(* Properties of the quote table *)

\* the calls of on_quotes made in a step, as the subscriber log records them
NewlySeen == SubSeq(delivered', Len(delivered) + 1, Len(delivered'))
BooksWritten == { NewlySeen[i].book : i \in 1 .. Len(NewlySeen) }
\* the stamp of the last batch written for a venue in a step
LastStamp(book) ==
    LET i == CHOOSE j \in 1 .. Len(NewlySeen) :
                 /\ NewlySeen[j].book = book
                 /\ \A l \in (j + 1) .. Len(NewlySeen) : NewlySeen[l].book # book
    IN  <<NewlySeen[i].shock, IF NewlySeen[i].step = 3 THEN 1 ELSE 0>>

\* C13: an update overwrites the entry of every (venue, side) key of its batch
\* with the new quote whatever was there before, leaves every other entry as it
\* was, and no step ever removes an entry.
C13_OverwriteAndFrame ==
    [][\A k \in Keys :
          /\ quotes[k] # None => quotes'[k] # None
          /\ k[1] \in BooksWritten =>
                /\ quotes'[k] # None
                /\ quotes'[k].book = k[1] /\ quotes'[k].side = k[2]
                /\ quotes'[k].ts_ms = LastStamp(k[1])
          /\ k[1] \notin BooksWritten => quotes'[k] = quotes[k]]_vars

C13_Witness ==
    /\ quotes[<<"BookA", "A">>] # None /\ quotes[<<"BookB", "A">>] # None
    /\ quotes[<<"BookA", "A">>].ts_ms = <<1, 0>>
    /\ quotes[<<"BookB", "A">>].ts_ms = <<1, 1>>
    /\ quotes[<<"BookB", "A">>].decimal # <<153, 50>>

----------------------------------------------------------------------------
(* Termination *)

\* C14: under fair scheduling every attempt whose legs are in flight resolves,
\* the feed's run loop and the engine's tick loop both exit once the session
\* time has passed, and open_trades is 0 when the engine has exited.
C14_SessionEnds ==
    /\ (engine_pc \in {"leg1", "leg2"}) ~> (engine_pc \in {"loop", "done"} /\ inflight = {} /\ t2 # None)
    /\ <>[](feed_pc = "done" /\ engine_pc = "done")
    /\ [](engine_pc = "done" => open_trades = 0)

C14_Witness ==
    /\ feed_pc = "done" /\ engine_pc = "done"
    /\ expired
    /\ t1 # None /\ t2 # None /\ ~t1.accepted
    /\ Len(trades) >= 1

----------------------------------------------------------------------------
(* A threshold no edge reaches *)

\* C15: when MIN_ARBITRAGE_EDGE exceeds every edge the published quotes ever
\* produce, no attempt is opened, the ledger stays empty to the end of the
\* session, and summary takes its empty branch instead of averaging over zero
\* trades.
C15_NothingClearsThreshold ==
    min_edge = EDGE_ABOVE_ALL =>
        /\ \A p \in PresentPairs(quotes) : RLt(PairEdge(quotes, p), min_edge)
        /\ opp = None /\ stakes = None /\ t1 = None /\ t2 = None
        /\ open_trades = 0 /\ inflight = {} /\ engine_pc \in {"loop", "done"}
        /\ trades = << >>
        /\ engine_pc = "done" <=> report = [kind |-> "NoTrades"]
        /\ engine_pc # "done" <=> report = None

C15_Witness ==
    /\ min_edge = EDGE_ABOVE_ALL /\ max_concurrent = MAX_CONCURRENT
    /\ read # Unread
    /\ \E p \in PresentPairs(read) : RLt(Zero, PairEdge(read, p))
    /\ shocks = MaxShocks
    /\ engine_pc = "done" /\ report = [kind |-> "NoTrades"]

----------------------------------------------------------------------------
(* Odds feed service: producer_loop and the /v1/stream handler *)

MaxFetches == 3   \* calls of fetch_once in a run

BotVars == <<quotes, open_trades, trades, max_concurrent, opp, read, stakes, t1, t2,
             inflight, engine_pc, engine_timer, fair, feed_pc, feed_timer, shocks,
             delivered, since_shock, expired, min_edge, report>>

\* outcome["price"]: a number, or something float() raises on
Num(v) == [kind |-> "Num", v |-> v]
NotANumber == [kind |-> "NotANumber"]
Outcome(name, price) == [name |-> name, price |-> price]

\* r.json() of one sport, flattened to the outcomes of its one market
Payloads ==
    { << >>,
      << Outcome("Team A", Num(<<19, 10>>)) >>,
      << Outcome("Team A", NotANumber) >>,
      << Outcome("Team A", Num(<<19, 10>>)), Outcome("Team B", Num(<<21, 10>>)) >>,
      << Outcome("Team A", Num(<<19, 10>>)), Outcome("Team B", NotANumber) >> }

\* float(outcome["price"]) returns
Floatable(price) == price.kind = "Num"

normalize_event(sport_key, outcome, ts) ==
    [kind |-> "Rec", sport_key |-> sport_key, side |-> outcome.name,
     odds_dec |-> outcome.price.v, ts_ms |-> ts]

\* the for loops of lines 45-53 over one response: the table and the updates
\* they leave, and whether normalize_event raised on the way
RECURSIVE Collect(_, _, _, _, _)
Collect(table, data, sport_key, ts, ups) ==
    IF data = << >> THEN [latest |-> table, updates |-> ups, raised |-> FALSE]
    ELSE LET out == Head(data)
             key == <<sport_key, out.name>>
         IN  IF ~Floatable(out.price)
             THEN [latest |-> table, updates |-> ups, raised |-> TRUE]
             ELSE LET rec == normalize_event(sport_key, out, ts)
                  IN  IF table[key] # rec
                      THEN Collect([table EXCEPT ![key] = rec], Tail(data), sport_key, ts,
                                   Append(ups, rec))
                      ELSE Collect(table, Tail(data), sport_key, ts, ups)

AfterExcept_Propagates == "dead"

\* except Exception: pass, which leads to await asyncio.sleep(1.0)
AfterExcept == "nap"

Members(list) == { list[j] : j \in 1 .. Len(list) }

\* subscribers.remove(ws) for a ws that is in the list
Removed(list, w) == SelectSeq(list, LAMBDA x : x # w)

\* for ws in dead: subscribers.remove(ws), which raises ValueError for a ws
\* that is no longer in the list
RECURSIVE RemoveDead(_, _)
RemoveDead(list, d) ==
    IF d = << >> THEN [subscribers |-> list, raised |-> FALSE]
    ELSE IF Head(d) \notin Members(list) THEN [subscribers |-> list, raised |-> TRUE]
    ELSE RemoveDead(Removed(list, Head(d)), Tail(d))

Logged(kind, n, w, batch) == [kind |-> kind, fetch |-> n, ws |-> w, updates |-> batch]

\* the for loop over subscribers is over: lines 61-62, then line 65
BroadcastOver(d, log, n) ==
    LET r == RemoveDead(subscribers, d)
    IN  /\ subscribers' = r.subscribers
        /\ svc_pc' = IF r.raised THEN AfterExcept ELSE "nap"
        /\ svc_log' = IF r.raised THEN Append(log, Logged("remove_raised", n, "-", << >>))
                      ELSE log
        /\ updates' = << >>
        /\ sending' = None
        /\ send_i' = 0
        /\ dead' = << >>

\* fetch_once raises: the request fails, the status is an error, or the body
\* is not JSON
SvcFetchFails ==
    /\ svc_pc = "fetch"
    /\ fetches < MaxFetches
    /\ fetches' = fetches + 1
    /\ svc_pc' = AfterExcept
    /\ svc_log' = Append(svc_log, Logged("error", fetches + 1, "-", << >>))
    /\ UNCHANGED <<latest, subscribers, handlers, sport, updates, sending, send_i, dead>>
    /\ UNCHANGED BotVars

\* fetch_once returns: lines 44-56, up to the first send_json or past the loop
SvcFetched ==
    /\ svc_pc = "fetch"
    /\ fetches < MaxFetches
    /\ fetches' = fetches + 1
    /\ \E data \in Payloads :
          LET r == Collect(latest, data, SPORTS[sport], fetches + 1, << >>)
          IN  /\ latest' = r.latest
              /\ IF r.raised
                 THEN /\ svc_pc' = AfterExcept
                      /\ svc_log' = Append(svc_log, Logged("dropped", fetches + 1, "-", r.updates))
                      /\ UNCHANGED <<subscribers, updates, sending, send_i, dead>>
                 ELSE IF r.updates = << >>
                 THEN /\ svc_pc' = "nap"
                      /\ svc_log' = Append(svc_log, Logged("no_updates", fetches + 1, "-", << >>))
                      /\ UNCHANGED <<subscribers, updates, sending, send_i, dead>>
                 ELSE IF subscribers = << >>
                 THEN BroadcastOver(<< >>, Append(svc_log, Logged("updates", fetches + 1, "-", r.updates)),
                                    fetches + 1)
                 ELSE /\ svc_pc' = "send"
                      /\ svc_log' = Append(svc_log, Logged("updates", fetches + 1, "-", r.updates))
                      /\ updates' = r.updates
                      /\ sending' = subscribers[1]
                      /\ send_i' = 1
                      /\ dead' = << >>
                      /\ UNCHANGED subscribers
    /\ UNCHANGED <<handlers, sport>>
    /\ UNCHANGED BotVars

\* await ws.send_json(...) returns or raises: lines 58-60, up to the next
\* send_json or past the loop
SvcSendReturns ==
    /\ svc_pc = "send"
    /\ \E ok \in (IF handlers[sending] = "open" THEN BOOLEAN ELSE {FALSE}) :
          LET d   == IF ok THEN dead ELSE Append(dead, sending)
              log == Append(svc_log, Logged(IF ok THEN "odds_batch" ELSE "send_raised",
                                            fetches, sending, updates))
          IN  IF send_i + 1 <= Len(subscribers)
              THEN /\ sending' = subscribers[send_i + 1]
                   /\ send_i' = send_i + 1
                   /\ dead' = d
                   /\ svc_log' = log
                   /\ UNCHANGED <<subscribers, svc_pc, updates>>
              ELSE BroadcastOver(d, log, fetches)
    /\ UNCHANGED <<latest, handlers, sport, fetches>>
    /\ UNCHANGED BotVars

\* await asyncio.sleep(1.0) is over: the next sport, or the end of the for loop
SvcNapDone ==
    /\ svc_pc = "nap"
    /\ IF sport < Len(SPORTS)
       THEN sport' = sport + 1 /\ svc_pc' = "fetch"
       ELSE sport' = sport /\ svc_pc' = "pause"
    /\ UNCHANGED <<latest, subscribers, handlers, fetches, updates, sending, send_i, dead,
                   svc_log>>
    /\ UNCHANGED BotVars

\* await asyncio.sleep(0.5) is over: while True goes round
SvcPauseDone ==
    /\ svc_pc = "pause"
    /\ sport' = 1
    /\ svc_pc' = "fetch"
    /\ UNCHANGED <<latest, subscribers, handlers, fetches, updates, sending, send_i, dead,
                   svc_log>>
    /\ UNCHANGED BotVars

\* ws: await ws.accept(); subscribers.append(ws)
WsConnect ==
    /\ \E w \in Sockets :
          /\ handlers[w] = "new"
          /\ handlers' = [handlers EXCEPT ![w] = "open"]
          /\ subscribers' = Append(subscribers, w)
    /\ UNCHANGED <<latest, svc_pc, sport, fetches, updates, sending, send_i, dead, svc_log>>
    /\ UNCHANGED BotVars

\* ws: receive_text raises on disconnect; finally: remove ws if still listed
WsDisconnect ==
    /\ \E w \in Sockets :
          /\ handlers[w] = "open"
          /\ handlers' = [handlers EXCEPT ![w] = "closed"]
          /\ subscribers' = IF w \in Members(subscribers) THEN Removed(subscribers, w)
                            ELSE subscribers
    /\ UNCHANGED <<latest, svc_pc, sport, fetches, updates, sending, send_i, dead, svc_log>>
    /\ UNCHANGED BotVars

InitSvc ==
    /\ quotes = EmptyQuotes
    /\ open_trades = 0
    /\ trades = << >>
    /\ max_concurrent = MAX_CONCURRENT
    /\ opp = None
    /\ read = Unread
    /\ stakes = None
    /\ t1 = None
    /\ t2 = None
    /\ inflight = {}
    /\ engine_pc = "loop"
    /\ engine_timer = 0
    /\ fair = << <<2, 1>>, <<2, 1>> >>
    /\ feed_pc = "poll"
    /\ feed_timer = 0
    /\ shocks = 0
    /\ delivered = << >>
    /\ since_shock = 0
    /\ expired = FALSE
    /\ min_edge = MIN_ARBITRAGE_EDGE
    /\ report = None
    /\ ServiceStarted

NextSvc ==
    \/ SvcFetchFails \/ SvcFetched \/ SvcSendReturns
    \/ SvcNapDone \/ SvcPauseDone
    \/ WsConnect \/ WsDisconnect

SpecSvc == InitSvc /\ [][NextSvc]_vars

----------------------------------------------------------------------------
(* Properties of the producer loop *)

LastLogged == svc_log'[Len(svc_log')]
LogsOne(kind) == Len(svc_log') = Len(svc_log) + 1 /\ LastLogged.kind = kind

\* C16: an exception raised by a fetch does not end the producer loop: the
\* loop goes on to its sleep and from there to the next sport or the next
\* round, latest is as it was before the failed fetch, and a later fetch that
\* succeeds is still written to latest and sent to the subscribers.
C16_FetchErrorSwallowed ==
    /\ [](svc_pc # "dead")
    /\ [][LogsOne("error") =>
             /\ latest' = latest /\ subscribers' = subscribers
             /\ svc_pc' = "nap" /\ sport' = sport]_vars
    /\ [][(svc_pc = "nap" /\ svc_pc' # "nap") =>
             \/ sport < Len(SPORTS) /\ sport' = sport + 1 /\ svc_pc' = "fetch"
             \/ sport = Len(SPORTS) /\ svc_pc' = "pause"]_vars
    /\ [][(svc_pc = "pause" /\ svc_pc' # "pause") => (sport' = 1 /\ svc_pc' = "fetch")]_vars
    /\ [][LogsOne("updates") =>
             /\ \A j \in 1 .. Len(LastLogged.updates) :
                   LET rec == LastLogged.updates[j]
                   IN  /\ rec.ts_ms = fetches'
                       /\ latest'[<<rec.sport_key, rec.side>>] = rec
             /\ subscribers # << >> =>
                   (svc_pc' = "send" /\ sending' = subscribers[1] /\ updates' = LastLogged.updates)]_vars
    /\ [][LogsOne("odds_batch") =>
             /\ LastLogged.ws = sending /\ LastLogged.updates = updates
             /\ updates # << >>]_vars

C16_Witness ==
    \E i, j \in 1 .. Len(svc_log) :
        /\ i < j
        /\ svc_log[i].kind = "error"
        /\ svc_log[j].kind = "odds_batch"
        /\ svc_log[j].fetch > svc_log[i].fetch
        /\ \A k \in 1 .. Len(svc_log[j].updates) :
              latest[<<svc_log[j].updates[k].sport_key, svc_log[j].updates[k].side>>]
                  = svc_log[j].updates[k]

----------------------------------------------------------------------------
(* Properties of the shock sequence *)

\* C17 as stated: in step 2 of every shock the BookB quotes reflect the fair
\* odds from before the shock, with the sides swapped relative to BookA, and
\* are not derived from the fair odds the shock has just set.
C17_StaleFromPreShockFair ==
    [][shocks' = shocks + 1 =>
          /\ quotes'[<<"BookB", "A">>].decimal \in { Juiced(fair[2], u) : u \in NoiseStale }
          /\ quotes'[<<"BookB", "B">>].decimal \in { Juiced(fair[1], u) : u \in Noise }]_vars

----------------------------------------------------------------------------
(* Properties of the profit an attempt locks in *)

\* pairs of odds with an edge below, at and above MIN_ARBITRAGE_EDGE, each with
\* its edge and with what try_trade computes from it
LockOdds == { <<3, 2>>, <<2, 1>>, <<200, 99>>, <<3, 1>> }
LockCases ==
    { [o1 |-> o1, o2 |-> o2, edge |-> Edge(o1, o2), stakes |-> Staked([o1 |-> o1, o2 |-> o2])] :
        o1 \in LockOdds, o2 \in LockOdds }

\* C18: whenever the detector reports an opportunity (its edge is at least
\* MIN_ARBITRAGE_EDGE > 0), the solver's locked profit for the reported odds is
\* positive and locked / TOTAL_OUTLAY is at least MIN_ARBITRAGE_EDGE; hence
\* every Trade of the ledger has profit_locked > 0 and roi >= MIN_ARBITRAGE_EDGE.
C18_ReportedEdgeIsLockedIn ==
    /\ RLt(Zero, min_edge)
    /\ \A c \in LockCases :
          ClearsThreshold(c.edge) =>
              RLt(Zero, c.stakes.locked) /\ RLe(min_edge, c.stakes.roi)
    /\ opp # None =>
          /\ ClearsThreshold(Edge(opp.o1, opp.o2))
          /\ stakes = Staked(opp)
          /\ RLt(Zero, stakes.locked) /\ RLe(min_edge, stakes.roi)
    /\ \A i \in 1 .. Len(trades) :
          /\ RLt(Zero, trades[i].profit_locked)
          /\ RLe(min_edge, trades[i].roi)
          /\ trades[i].roi = RDiv(trades[i].profit_locked, TOTAL_OUTLAY)

C18_Witness ==
    /\ min_edge = MIN_ARBITRAGE_EDGE
    /\ Len(trades) = 2
    /\ trades[1].roi # trades[2].roi
    /\ opp # None /\ stakes.roi = trades[2].roi

----------------------------------------------------------------------------
(* Properties of an attempt under quote updates *)

LegsInFlight == engine_pc \in {"leg1", "leg2"}

\* the ticket echoes the leg of the opportunity as detected in the table read
EchoesDetection(t, book, side, stake, odds) ==
    /\ t.book = book /\ t.side = side
    /\ t.stake = stake /\ t.decimal_odds = odds
    /\ read[<<book, side>>].decimal = odds

\* C19: a quote update that arrives while the legs of an attempt are in flight
\* neither cancels nor changes the attempt: both tickets echo the stakes and
\* odds computed from the table as find_opportunity read it, and the Trade
\* recorded carries them too, whatever the table holds when the legs resolve.
C19_AttemptKeepsDetectionTerms ==
    /\ [](opp # None =>
             /\ opp = find_opportunity(read) /\ stakes = Staked(opp)
             /\ t1 # None => EchoesDetection(t1, opp.b1, "A", stakes.SA, opp.o1)
             /\ t2 # None => EchoesDetection(t2, opp.b2, "B", stakes.SB, opp.o2))
    /\ [][(LegsInFlight /\ quotes' # quotes) =>
             UNCHANGED <<opp, read, stakes, t1, t2, inflight, engine_pc, engine_timer,
                         open_trades, trades>>]_vars
    /\ [][LegsInFlight => UNCHANGED <<opp, read, stakes>>]_vars
    /\ [][Len(trades') = Len(trades) + 1 =>
             /\ LegsInFlight /\ t1.accepted /\ t2'.accepted
             /\ trades'[Len(trades')] =
                   Trade(opp.b1, opp.b2, stakes.SA, stakes.SB, opp.o1, opp.o2,
                         stakes.locked, stakes.roi)
             /\ trades'[Len(trades')].oA = read[<<opp.b1, "A">>].decimal
             /\ trades'[Len(trades')].oB = read[<<opp.b2, "B">>].decimal]_vars

\* the attempt has just resolved into a Trade, and the table has changed under
\* it since find_opportunity read it: the opportunity is gone
C19_Witness ==
    /\ engine_pc = "loop" /\ engine_timer = TICK_MS
    /\ opp # None /\ t1 # None /\ t2 # None
    /\ t1.accepted /\ t2.accepted
    /\ Len(trades) >= 1
    /\ trades[Len(trades)].oA = opp.o1 /\ trades[Len(trades)].oA # trades[Len(trades)].oB
    /\ quotes # read
    /\ find_opportunity(quotes) = None

----------------------------------------------------------------------------
(* Properties of the place calls of an attempt *)

\* C20: each attempt issues exactly two place calls, one for side A and one for
\* side B, at two different venues, and never issues a call again after a
\* rejection; the side-B call is made even when the side-A ticket came back
\* rejected, so an attempt resolves with two tickets, no fewer and no more.
C20_TwoLegsOnce ==
    /\ [](opp # None => opp.b1 # opp.b2)
    /\ []((t1 # None /\ t2 # None) =>
             (t1.side = "A" /\ t2.side = "B" /\ t1.book # t2.book))
    /\ [](inflight \in {{}, {"A"}, {"B"}})
    /\ [](inflight = {"A"} <=> engine_pc = "leg1")
    /\ [](inflight = {"B"} <=> engine_pc = "leg2")
    /\ [][inflight' # inflight =>
             \/ /\ inflight = {} /\ inflight' = {"A"}
                /\ t1' = None /\ t2' = None
                /\ open_trades' = open_trades + 1
             \/ /\ inflight = {"A"} /\ inflight' = {"B"}
                /\ t1' # None /\ t1'.book = opp.b1 /\ t2' = None
                /\ open_trades' = open_trades
             \/ /\ inflight = {"B"} /\ inflight' = {}
                /\ t1' = t1 /\ t1 # None
                /\ t2' # None /\ t2'.book = opp.b2
                /\ open_trades' = open_trades - 1]_vars
    /\ [][t1' # t1 => (inflight = {} \/ inflight = {"A"})]_vars
    /\ [][t2' # t2 => ((inflight = {} /\ t2' = None) \/ inflight = {"B"})]_vars

C20_Witness ==
    /\ engine_pc = "loop" /\ inflight = {}
    /\ t1 # None /\ t2 # None
    /\ ~t1.accepted /\ t2.accepted
    /\ t1.book = "BookB" /\ t2.book = "BookA"

=============================================================================
